---- MODULE Spec2Model ----
(***************************************************************************)
(* The booking engine of spacemania: the bookings table with its          *)
(* no_double_booking exclusion constraint, the database operations of     *)
(* booking.database.js and the createBooking / cancelBooking controllers, *)
(* each request handled by one of a set of concurrent clients.            *)
(*                                                                         *)
(* Time is in milliseconds since an arbitrary origin; the database        *)
(* session time zone is taken to be UTC, so that a ::timestamp literal    *)
(* and the timestamptz column it is stored in denote the same instant.    *)
(***************************************************************************)
EXTENDS Integers, Sequences, FiniteSets, TLC

(* ------------------------------ bounds -------------------------------- *)

\* most rows the bookings table holds
MaxBookings == 2

\* most rows the table holds when requests are handled one at a time
MaxSeqBookings == 1

\* request instants are the half seconds 0, 500, ..., MaxTick * 500
MaxTick == 2

(* ------------------------- program constants -------------------------- *)

\* toISOString().slice(0, 19) keeps whole seconds of a millisecond instant
MsPerSecond == 1000

\* const userId = 6 in the createBooking controller
HardcodedUserId == 6

\* StatusCodes.BAD_REQUEST of BadRequestError
BAD_REQUEST == 400

\* res.status(201) of the createBooking controller
CREATED == 201

\* res.json of the cancelBooking controller answers with Express' default
OK == 200

\* the status the cancel route documents for a booking that is not found
NOT_FOUND == 404

Clients == {"c1", "c2"}

Users == {HardcodedUserId, HardcodedUserId + 1}

Instants == {k * (MsPerSecond \div 2) : k \in 0..MaxTick}

\* the windows a request may ask for: a start and an end, the end up to half
\* a second before the start
Windows ==
  {<<s, e>> \in Instants \X Instants : e >= s - (MsPerSecond \div 2)}

BookingIds == 1..MaxBookings

\* CHECK (status IN (...)) of the bookings table
Statuses == {"pending", "confirmed", "cancelled", "completed", "rejected"}

(* ------------------------- workspace catalog -------------------------- *)

WorkspaceIds == {1, 2}

\* workspaces JOIN workspace_types: workspace 1 is a desk for two that
\* needs no approval, workspace 2 a deactivated room for one that does
workspaces ==
  [w \in WorkspaceIds |->
     IF w = 1
       THEN [base_capacity |-> 2, requires_approval |-> FALSE, is_active |-> TRUE]
       ELSE [base_capacity |-> 1, requires_approval |-> TRUE, is_active |-> FALSE]]

\* SELECT w.base_capacity, wt.requires_approval ... WHERE w.id = $1
getWorkspaceCapacity(w) == workspaces[w]

\* the attendee counts a request may carry: from the default of one up to
\* one more than the largest workspace holds
AttendeeCounts ==
  LET capacities == {workspaces[w].base_capacity : w \in WorkspaceIds}
  IN 1..((CHOOSE n \in capacities : \A m \in capacities : m <= n) + 1)

(* ------------------------------- state -------------------------------- *)

VARIABLES
  bookings,   \* the bookings table: a sequence of rows, a row's id its index
  req,        \* per client: the request it is handling and its local state
  resp,       \* the response the last step sent, NoResponse when it sent none
  now         \* the wall clock, new Date() and NOW()

vars == <<bookings, req, resp, now>>

\* a client between requests
Idle ==
  [op |-> "none", pc |-> "idle", user |-> 0, ws |-> 0, start |-> 0, end |-> 0,
   att |-> 0, id |-> 0, seen |-> ""]

NoResponse ==
  [op |-> "none", code |-> 0, msg |-> "", cause |-> "", user |-> 0, id |-> 0,
   seen |-> "", wrote |-> 0]

(* --------------------------- pure functions --------------------------- *)

\* new Date(t).toISOString().slice(0, 19).replace('T', ' ')
toTimestamp(t) == (t \div MsPerSecond) * MsPerSecond

\* a conflict query without its status condition
AnyStatus(b) == TRUE

\* status IN ('confirmed', 'pending')
IsActive(b) == b.status \in {"confirmed", "pending"}

\* the three clauses with every comparison inclusive
TimeClausesInclusive(b, s, e) ==
  \/ (b.start_time <= e /\ b.end_time >= s)
  \/ (b.start_time >= s /\ b.start_time <= e)
  \/ (b.end_time >= s /\ b.end_time <= e)

\* the three-clause time condition of both conflict queries
TimeClauses(b, s, e) ==
  \/ (b.start_time < e /\ b.end_time > s)
  \/ (b.start_time >= s /\ b.start_time < e)
  \/ (b.end_time > s /\ b.end_time <= e)

\* a conflict query without its workspace condition
ConflictingAnyWorkspace(rows, w, s, e) ==
  {i \in DOMAIN rows : TimeClauses(rows[i], s, e) /\ IsActive(rows[i])}

\* the rows a conflict query selects for workspace w and window s, e
ConflictingBookings(rows, w, s, e) ==
  {i \in DOMAIN rows :
     /\ rows[i].workspace_id = w
     /\ TimeClauses(rows[i], s, e)
     /\ IsActive(rows[i])}

RECURSIVE SumAttendees(_, _)
SumAttendees(rows, ids) ==
  IF ids = {} THEN 0
  ELSE LET i == CHOOSE x \in ids : TRUE
       IN rows[i].attendees + SumAttendees(rows, ids \ {i})

\* getWorkspaceAvailability: COALESCE(SUM(attendees), 0) over the conflicting
\* rows, compared with the base capacity
getWorkspaceAvailability(rows, w, s, e, attendees) ==
  LET workspace == getWorkspaceCapacity(w)
      total == SumAttendees(rows, ConflictingBookings(rows, w, s, e))
  IN [base_capacity     |-> workspace.base_capacity,
      current_attendees |-> total,
      is_available      |-> (workspace.base_capacity - total) >= attendees,
      available_slots   |-> workspace.base_capacity - total,
      requires_approval |-> workspace.requires_approval]

\* tstzrange(start_time, end_time, '[]') && tstzrange(start_time, end_time, '[]')
RangesOverlap(a, b) == a.start_time <= b.end_time /\ b.start_time <= a.end_time

\* the table without its exclusion constraint
NoExclusion(rows, new) == FALSE

\* a constraint that refuses only a second row of the very same range, as a
\* UNIQUE (workspace_id, start_time, end_time) would
ExclusionOnEqualRanges(rows, new) ==
  \E i \in DOMAIN rows :
    /\ rows[i].workspace_id = new.workspace_id
    /\ rows[i].start_time = new.start_time
    /\ rows[i].end_time = new.end_time

\* no_double_booking: EXCLUDE USING gist (workspace_id WITH =, tstzrange WITH &&);
\* the constraint has no WHERE clause, so rows of every status take part
ExclusionViolated(rows, new) ==
  \E i \in DOMAIN rows :
    rows[i].workspace_id = new.workspace_id /\ RangesOverlap(rows[i], new)

\* an INSERT that leaves the status to the column's DEFAULT 'confirmed'
NewRowDefaultStatus(user, w, s, e, attendees, requiresApproval) ==
  [user_id      |-> user,
   workspace_id |-> w,
   start_time   |-> s,
   end_time     |-> e,
   attendees    |-> attendees,
   status       |-> "confirmed"]

\* the row INSERT INTO bookings writes
NewRow(user, w, s, e, attendees, requiresApproval) ==
  [user_id      |-> user,
   workspace_id |-> w,
   start_time   |-> s,
   end_time     |-> e,
   attendees    |-> attendees,
   status       |-> IF requiresApproval THEN "pending" ELSE "confirmed"]

(* ------------------------------- errors ------------------------------- *)

BadRequestError(message) == [cls |-> "BadRequestError", code |-> "", message |-> message]

Error(message) == [cls |-> "Error", code |-> "", message |-> message]

\* the error pg raises for a violated exclusion constraint: SQLSTATE 23P01
ExclusionError == [cls |-> "DatabaseError", code |-> "23P01", message |-> "no_double_booking"]

\* a failed storage call: connection lost, timeout
StorageError == [cls |-> "DatabaseError", code |-> "08006", message |-> "connection failure"]

\* the catch block of the createBooking controller
CreateCatch(err) ==
  IF err.code = "23505" THEN BadRequestError("Timeslot already booked")
  ELSE IF err.cls = "BadRequestError" THEN err
  ELSE BadRequestError("Failed to create booking")

\* the catch block of the cancelBooking controller
CancelCatch(err) ==
  IF err.cls = "BadRequestError" THEN err
  ELSE BadRequestError("Failed to cancel booking")

\* next(err) and errorHandler: every BadRequestError carries statusCode 400;
\* wrote is the id of the row the request wrote, 0 when it wrote none;
\* cause is the message of the error first thrown
Failed(r, cause, err, wrote) ==
  [op |-> r.op, code |-> BAD_REQUEST, msg |-> err.message, cause |-> cause.message,
   user |-> r.user, id |-> r.id, seen |-> r.seen, wrote |-> wrote]

\* res.status(code).json({success: true, message: msg})
Succeeded(r, code, msg, wrote) ==
  [op |-> r.op, code |-> code, msg |-> msg, cause |-> "",
   user |-> r.user, id |-> r.id, seen |-> r.seen, wrote |-> wrote]

\* the response to a createBooking request that threw the error in thrown, a
\* set of one error, before it wrote anything
CreateFailed(thrown) ==
  LET err == CHOOSE x \in thrown : TRUE
  IN Failed([Idle EXCEPT !.op = "create"], err, CreateCatch(err), 0)

\* the response to the cancelBooking request r that threw the error in thrown
CancelFailed(r, thrown) ==
  LET err == CHOOSE x \in thrown : TRUE IN Failed(r, err, CancelCatch(err), 0)

(* ---------------------------- createBooking --------------------------- *)

Free(c) == req[c].pc = "idle"

InFlightCreates == {c \in Clients : req[c].op = "create"}

\* the controller's validation of the window (lines 126-138) and its
\* availability pre-check (lines 143-156): the error thrown, if any
CreateRefusal(rows, clock, w, s, e, a) ==
  IF s >= e THEN {BadRequestError("End time must be after start time")}
  ELSE IF s < clock THEN {BadRequestError("Cannot book in the past")}
  ELSE IF ~getWorkspaceAvailability(rows, w, s, e, a).is_available
    THEN {BadRequestError("Workspace not available for the requested time/slots")}
  ELSE {}

\* database createBooking up to its conflict query (lines 85-125): the error
\* thrown, if any; s and e are the truncated instants
ReserveRefusal(rows, w, s, e, a) ==
  IF getWorkspaceCapacity(w).base_capacity < a
    THEN {Error("Attendees exceed workspace capacity")}
  ELSE IF ConflictingBookings(rows, w, s, e) # {}
    THEN {Error("The selected time slot is already booked")}
  ELSE {}

\* controller lines 125-167 and database lines 85-89 for the body w, s, e, a:
\* validate, run the availability pre-check on the instants as given, and
\* enter the database createBooking, which truncates them to whole seconds
Prechecked(c, w, s, e, a) ==
  LET refused == CreateRefusal(bookings, now, w, s, e, a)
  IN IF refused # {}
       THEN /\ resp' = CreateFailed(refused)
            /\ req' = [req EXCEPT ![c] = Idle]
       ELSE /\ req' = [req EXCEPT ![c] =
                 [Idle EXCEPT !.op = "create", !.pc = "reserve", !.ws = w,
                              !.start = toTimestamp(s), !.end = toTimestamp(e),
                              !.att = a]]
            /\ resp' = NoResponse

\* a createBooking request arrives and runs up to the database createBooking
CreateStart(c) ==
  /\ Free(c)
  /\ Len(bookings) + Cardinality(InFlightCreates) < MaxBookings
  /\ \E w \in WorkspaceIds, win \in Windows, a \in AttendeeCounts :
       Prechecked(c, w, win[1], win[2], a)
  /\ UNCHANGED <<bookings, now>>

\* a createBooking request that has arrived, its body read (lines 112-123),
\* runs up to the database createBooking
CreatePrecheck(c) ==
  /\ req[c].op = "create" /\ req[c].pc = "start"
  /\ Prechecked(c, req[c].ws, req[c].start, req[c].end, req[c].att)
  /\ UNCHANGED <<bookings, now>>

\* database lines 91-125: the capacity check and the conflict query
CreateReserve(c) ==
  /\ req[c].op = "create" /\ req[c].pc = "reserve"
  /\ LET r == req[c]
         refused == ReserveRefusal(bookings, r.ws, r.start, r.end, r.att)
     IN IF refused # {}
          THEN /\ resp' = CreateFailed(refused)
               /\ req' = [req EXCEPT ![c] = Idle]
          ELSE /\ req' = [req EXCEPT ![c].pc = "insert"]
               /\ resp' = NoResponse
  /\ UNCHANGED <<bookings, now>>

\* the row the request inserts: the owner is the controller's userId
RowOf(r) ==
  NewRow(HardcodedUserId, r.ws, r.start, r.end, r.att,
         getWorkspaceCapacity(r.ws).requires_approval)

\* the 201 body's message
CreatedMessage(row) ==
  IF row.status = "pending" THEN "Booking request submitted for approval"
  ELSE "Booking confirmed"

\* database lines 127-153 and controller lines 169-178: the INSERT, which runs
\* on a pool connection of its own and so is committed at once, then the
\* controller's COMMIT and the 201 response
CreateInsert(c) ==
  /\ req[c].op = "create" /\ req[c].pc = "insert"
  /\ LET r == req[c]
         row == RowOf(r)
         id == Len(bookings) + 1
     IN IF ExclusionViolated(bookings, row)
          THEN /\ resp' = CreateFailed({ExclusionError})
               /\ UNCHANGED bookings
          ELSE /\ bookings' = Append(bookings, row)
               /\ resp' = Succeeded([Idle EXCEPT !.op = "create", !.id = id], CREATED,
                                    CreatedMessage(row), id)
  /\ req' = [req EXCEPT ![c] = Idle]
  /\ UNCHANGED now

\* a storage call of the request fails before the INSERT has run
CreateStorageFault(c) ==
  /\ req[c].op = "create" /\ req[c].pc \in {"reserve", "insert"}
  /\ resp' = CreateFailed({StorageError})
  /\ req' = [req EXCEPT ![c] = Idle]
  /\ UNCHANGED <<bookings, now>>

\* the INSERT succeeds and the controller's COMMIT (line 169) then fails: the
\* catch block rolls back the controller's own connection, which holds no write
CreateCommitFault(c) ==
  /\ req[c].op = "create" /\ req[c].pc = "insert"
  /\ LET r == req[c]
         row == RowOf(r)
         id == Len(bookings) + 1
     IN /\ ~ExclusionViolated(bookings, row)
        /\ bookings' = Append(bookings, row)
        /\ resp' = Failed([Idle EXCEPT !.op = "create", !.id = id], StorageError,
                           CreateCatch(StorageError), id)
  /\ req' = [req EXCEPT ![c] = Idle]
  /\ UNCHANGED now

(* ---------------------------- cancelBooking --------------------------- *)

\* the row lock an uncommitted UPDATE holds
Locked(id) ==
  \E c \in Clients : req[c].op = "cancel" /\ req[c].pc = "commit" /\ req[c].id = id

\* the SELECT without its ownership condition
SelectById(rows, id, user) == {i \in DOMAIN rows : i = id}

\* SELECT * FROM bookings WHERE id = $1 AND user_id = $2
SelectOwned(rows, id, user) == {i \in DOMAIN rows : i = id /\ rows[i].user_id = user}

\* the statuses cancelBooking refuses to cancel (line 328)
Uncancellable == {"cancelled", "completed"}

\* the UPDATE without its WHERE clause
UpdateEveryRow(rows, id, status) ==
  [i \in DOMAIN rows |-> [rows[i] EXCEPT !.status = status]]

\* UPDATE bookings SET status = $1 WHERE id = $2
UpdateStatus(rows, id, status) ==
  [i \in DOMAIN rows |-> IF i = id THEN [rows[i] EXCEPT !.status = status] ELSE rows[i]]

\* controller lines 312-332: BEGIN, the ownership SELECT, the status check
CancelSelect(c) ==
  /\ Free(c)
  /\ \E u \in Users, id \in BookingIds :
       LET r == [Idle EXCEPT !.op = "cancel", !.pc = "update", !.user = u, !.id = id]
           found == SelectOwned(bookings, id, u)
       IN IF found = {}
            THEN /\ resp' = CancelFailed(r, {BadRequestError("404")})
                 /\ UNCHANGED req
          ELSE IF bookings[id].status \in Uncancellable
            THEN /\ resp' = CancelFailed([r EXCEPT !.seen = bookings[id].status],
                                   {BadRequestError(
                                     "Cannot cancel a completed or already cancelled booking")})
                 /\ UNCHANGED req
          ELSE /\ req' = [req EXCEPT ![c] = [r EXCEPT !.seen = bookings[id].status]]
               /\ resp' = NoResponse
  /\ UNCHANGED <<bookings, now>>

\* controller lines 334-338: the UPDATE takes the row lock, waiting for it
\* while another transaction holds it
CancelUpdate(c) ==
  /\ req[c].op = "cancel" /\ req[c].pc = "update"
  /\ ~Locked(req[c].id)
  /\ req' = [req EXCEPT ![c].pc = "commit"]
  /\ resp' = NoResponse
  /\ UNCHANGED <<bookings, now>>

\* controller lines 340-345: COMMIT makes the update visible
CancelCommit(c) ==
  /\ req[c].op = "cancel" /\ req[c].pc = "commit"
  /\ bookings' = UpdateStatus(bookings, req[c].id, "cancelled")
  /\ resp' = Succeeded(req[c], OK, "Booking cancelled successfully", req[c].id)
  /\ req' = [req EXCEPT ![c] = Idle]
  /\ UNCHANGED now

\* a storage call of the transaction fails: ROLLBACK drops the update
CancelStorageFault(c) ==
  /\ req[c].op = "cancel" /\ req[c].pc \in {"update", "commit"}
  /\ resp' = CancelFailed(req[c], {StorageError})
  /\ req' = [req EXCEPT ![c] = Idle]
  /\ UNCHANGED <<bookings, now>>

(* --------------------------- checkAvailability ------------------------ *)

\* const MIN_BOOKING_BUFFER = 24 * 60 * 60 * 1000
MIN_BOOKING_BUFFER == 24 * 60 * 60 * MsPerSecond

\* a policy that also turns away a start exactly at the earliest allowed one
TooEarlyInclusive(s, clock) == s <= clock + MIN_BOOKING_BUFFER

\* start < earliestAllowedStart
TooEarly(s, clock) == s < clock + MIN_BOOKING_BUFFER

\* the value of property name of the object rec: a set of one value, empty
\* when the object has no such property (undefined)
Property(rec, name) == IF name \in DOMAIN rec THEN {rec[name]} ELSE {}

\* attendees > workspace.capacity: a comparison with undefined is false
ExceedsCapacity(a, workspace) == \E capacity \in Property(workspace, "capacity") : a > capacity

\* the validations of the checkAvailability controller (lines 224-245): the
\* error thrown, if any
AvailabilityRefusal(clock, w, s, e, a) ==
  IF s >= e THEN {BadRequestError("End time must be after start time")}
  ELSE IF TooEarly(s, clock)
    THEN {BadRequestError("Bookings require at least 24 hours advance notice")}
  ELSE IF a < 1 THEN {BadRequestError("Attendees must be a positive number")}
  ELSE IF ExceedsCapacity(a, getWorkspaceCapacity(w))
    THEN {BadRequestError("Workspace only accommodates that many attendees")}
  ELSE {}

\* the catch block of the checkAvailability controller
CheckCatch(err) ==
  IF err.cls = "BadRequestError" THEN err
  ELSE BadRequestError("Availability check failed")

\* the checkAvailability controller: the response to a request of workspace w,
\* window s, e and a attendees on the table rows at time clock; a 200
\* response carries the availability summary as its data
checkAvailability(rows, clock, w, s, e, a) ==
  LET r == [Idle EXCEPT !.op = "check"]
      refused == AvailabilityRefusal(clock, w, s, e, a)
  IN IF refused # {}
       THEN LET err == CHOOSE x \in refused : TRUE
            IN Failed(r, err, CheckCatch(err), 0)
       ELSE Succeeded(r, OK, "", 0)
              @@ [data |-> getWorkspaceAvailability(rows, w, s, e, a)]

(* -------------------------------- clock ------------------------------- *)

Tick ==
  /\ now + MsPerSecond <= MaxTick * (MsPerSecond \div 2)
  /\ now' = now + MsPerSecond
  /\ resp' = NoResponse
  /\ UNCHANGED <<bookings, req>>

(* ---------------------------- specification --------------------------- *)

\* a row another part of the system left in the table, in a status the CHECK
\* constraint admits and no operation here writes
SeedRows ==
  {[user_id |-> HardcodedUserId + 1, workspace_id |-> 1, start_time |-> 0,
    end_time |-> MsPerSecond, attendees |-> 1, status |-> st] :
     st \in Statuses \ {"pending", "confirmed", "cancelled"}}

Init ==
  /\ bookings \in {<<>>} \cup {<<b>> : b \in SeedRows}
  /\ req = [c \in Clients |-> Idle]
  /\ resp = NoResponse
  /\ now = 0

Next ==
  \/ \E c \in Clients : CreateStart(c)
  \/ \E c \in Clients : CreateReserve(c)
  \/ \E c \in Clients : CreateInsert(c)
  \/ \E c \in Clients : CreateStorageFault(c)
  \/ \E c \in Clients : CreateCommitFault(c)
  \/ \E c \in Clients : CancelSelect(c)
  \/ \E c \in Clients : CancelUpdate(c)
  \/ \E c \in Clients : CancelCommit(c)
  \/ \E c \in Clients : CancelStorageFault(c)
  \/ Tick

Spec == Init /\ [][Next]_vars

(* ------------------------- the race of two requests ------------------- *)

\* the half-open windows s1, e1 and s2, e2 share an instant
WindowsOverlap(s1, e1, s2, e2) == s1 < e2 /\ s2 < e1

\* a createBooking body that passes validation at time 0 and asks for no
\* more than the workspace holds
ValidBodies ==
  {[Idle EXCEPT !.op = "create", !.pc = "start", !.ws = w, !.start = win[1],
                !.end = win[2], !.att = a] :
     w \in WorkspaceIds, win \in {x \in Windows : x[1] < x[2]},
     a \in AttendeeCounts}

\* two requests for overlapping windows of one workspace have arrived, the
\* table is empty and no storage call fails
InitRace ==
  /\ bookings = <<>>
  /\ req \in {q \in [Clients -> ValidBodies] :
                \A c, d \in Clients :
                  /\ q[c].ws = q[d].ws
                  /\ q[c].att <= workspaces[q[c].ws].base_capacity
                  /\ WindowsOverlap(q[c].start, q[c].end, q[d].start, q[d].end)}
  /\ resp = NoResponse
  /\ now = 0

NextRace ==
  \/ \E c \in Clients : CreatePrecheck(c)
  \/ \E c \in Clients : CreateReserve(c)
  \/ \E c \in Clients : CreateInsert(c)

SpecRace == InitRace /\ [][NextRace]_vars

\* two requests for different workspaces have arrived, the table is empty
\* and no storage call fails
InitApart ==
  /\ bookings = <<>>
  /\ req \in {q \in [Clients -> ValidBodies] :
                \A c, d \in Clients : c # d => q[c].ws # q[d].ws}
  /\ resp = NoResponse
  /\ now = 0

NextApart ==
  \/ \E c \in Clients : CreatePrecheck(c)
  \/ \E c \in Clients : CreateReserve(c)
  \/ \E c \in Clients : CreateInsert(c)

SpecApart == InitApart /\ [][NextApart]_vars

(* ------------------------- requests one at a time --------------------- *)

\* the attendee counts a request body may carry when nothing checks them
\* first: zero as well
BodyAttendeeCounts == {0} \cup AttendeeCounts

\* the createBooking controller run from its first line to its response with
\* no other request in between, for the authenticated caller u and the body
\* w, s, e, a on the table rows at time clock: the table and the response
createBooking(rows, clock, u, w, s, e, a) ==
  LET r == [Idle EXCEPT !.op = "create", !.user = u]
      start == toTimestamp(s)
      end == toTimestamp(e)
      row == NewRow(HardcodedUserId, w, start, end, a,
                    getWorkspaceCapacity(w).requires_approval)
      precheck == CreateRefusal(rows, clock, w, s, e, a)
      reserve == ReserveRefusal(rows, w, start, end, a)
      refused == IF precheck # {} THEN precheck
                 ELSE IF reserve # {} THEN reserve
                 ELSE IF ExclusionViolated(rows, row) THEN {ExclusionError}
                 ELSE {}
      id == Len(rows) + 1
  IN IF refused # {}
       THEN LET err == CHOOSE x \in refused : TRUE
            IN [rows |-> rows, resp |-> Failed(r, err, CreateCatch(err), 0)]
       ELSE [rows |-> Append(rows, row),
             resp |-> Succeeded([r EXCEPT !.id = id], CREATED, CreatedMessage(row), id)]

\* the cancelBooking controller run from its first line to its response with
\* no other request in between, for the caller u and the booking id
cancelBooking(rows, u, id) ==
  LET r == [Idle EXCEPT !.op = "cancel", !.user = u, !.id = id]
      found == SelectOwned(rows, id, u)
      refused == IF found = {} THEN {BadRequestError("404")}
                 ELSE IF rows[id].status \in Uncancellable
                   THEN {BadRequestError(
                           "Cannot cancel a completed or already cancelled booking")}
                 ELSE {}
      seen == IF found = {} THEN r ELSE [r EXCEPT !.seen = rows[id].status]
  IN IF refused # {}
       THEN [rows |-> rows, resp |-> CancelFailed(seen, refused)]
       ELSE [rows |-> UpdateStatus(rows, id, "cancelled"),
             resp |-> Succeeded(seen, OK, "Booking cancelled successfully", id)]

\* a createBooking request of caller u is handled
Create(u, w, s, e, a) ==
  /\ LET out == createBooking(bookings, now, u, w, s, e, a)
     IN /\ Len(out.rows) <= MaxSeqBookings
        /\ bookings' = out.rows
        /\ resp' = out.resp
  /\ UNCHANGED <<req, now>>

\* a cancelBooking request of caller u is handled
Cancel(u, id) ==
  /\ LET out == cancelBooking(bookings, u, id)
     IN bookings' = out.rows /\ resp' = out.resp
  /\ UNCHANGED <<req, now>>

InitSeq ==
  /\ bookings = <<>>
  /\ req = [c \in Clients |-> Idle]
  /\ resp = NoResponse
  /\ now = 0

NextSeq ==
  \/ \E u \in Users, w \in WorkspaceIds, win \in Windows, a \in BodyAttendeeCounts :
       Create(u, w, win[1], win[2], a)
  \/ \E u \in Users, id \in BookingIds : Cancel(u, id)
  \/ Tick

SpecSeq == InitSeq /\ [][NextSeq]_vars

(* ----------------------- availability checks alone -------------------- *)

\* the start and end times a checkAvailability request may ask for: within a
\* second of the earliest allowed start
NoticeInstants(clock) == {clock + MIN_BOOKING_BUFFER + d * MsPerSecond : d \in -1..1}

\* a checkAvailability that holds the window it found available
CheckAndHold(w, s, e, a) ==
  /\ resp' = checkAvailability(bookings, now, w, s, e, a)
                @@ [query |-> [ws |-> w, start |-> s, end |-> e, att |-> a]]
  /\ bookings' = IF resp'.code = OK /\ Len(bookings) < MaxBookings
                   THEN Append(bookings, NewRow(HardcodedUserId, w, toTimestamp(s),
                                                toTimestamp(e), a, TRUE))
                 ELSE bookings
  /\ UNCHANGED <<req, now>>

\* a checkAvailability request is handled; the response is kept with the
\* query it answers
Check(w, s, e, a) ==
  /\ resp' = checkAvailability(bookings, now, w, s, e, a)
                @@ [query |-> [ws |-> w, start |-> s, end |-> e, att |-> a]]
  /\ UNCHANGED <<bookings, req, now>>

\* the rows createBooking writes for a window around the earliest allowed
\* start, as they stand or cancelled since
NoticeRows ==
  LET written == {NewRow(HardcodedUserId, w, toTimestamp(s), toTimestamp(e), a,
                         getWorkspaceCapacity(w).requires_approval) :
                    w \in WorkspaceIds, s \in NoticeInstants(0), e \in NoticeInstants(0),
                    a \in AttendeeCounts}
      valid == {b \in written :
                  /\ b.start_time < b.end_time
                  /\ b.attendees <= workspaces[b.workspace_id].base_capacity}
  IN valid \cup {[b EXCEPT !.status = "cancelled"] : b \in valid}

\* the table holds no row or one row written earlier
InitCheck ==
  /\ bookings \in {<<>>} \cup {<<b>> : b \in NoticeRows}
  /\ req = [c \in Clients |-> Idle]
  /\ resp = NoResponse
  /\ now = 0

NextCheck ==
  \/ \E w \in WorkspaceIds, s, e \in NoticeInstants(now), a \in BodyAttendeeCounts :
       Check(w, s, e, a)
  \/ Tick

SpecCheck == InitCheck /\ [][NextCheck]_vars

(* ------------------- bookings of whole-second windows ----------------- *)

\* the whole seconds a request's window starts and ends at
SlotInstants == {k * MsPerSecond : k \in 0..(MaxTick + 1)}

SlotWindows == {win \in SlotInstants \X SlotInstants : win[1] < win[2]}

\* a createBooking request is handled; the response is kept with the body
\* it answers
Book(w, s, e, a) ==
  /\ LET out == createBooking(bookings, now, HardcodedUserId, w, s, e, a)
     IN /\ Len(out.rows) <= MaxBookings
        /\ bookings' = out.rows
        /\ resp' = out.resp @@ [body |-> [ws |-> w, start |-> s, end |-> e, att |-> a]]
  /\ UNCHANGED <<req, now>>

InitSlots ==
  /\ bookings = <<>>
  /\ req = [c \in Clients |-> Idle]
  /\ resp = NoResponse
  /\ now = 0

NextSlots ==
  \/ \E w \in WorkspaceIds, win \in SlotWindows, a \in AttendeeCounts :
       Book(w, win[1], win[2], a)
  \/ \E u \in Users, id \in BookingIds : Cancel(u, id)

SpecSlots == InitSlots /\ [][NextSlots]_vars

(* ---------------------- the availability summary ---------------------- *)

\* database getWorkspaceAvailability is called for workspace w, window s, e
\* and a attendees; the summary is kept with the arguments it answers
Availability(w, s, e, a) ==
  /\ resp' = [NoResponse EXCEPT !.op = "availability"]
               @@ [data |-> getWorkspaceAvailability(bookings, w, s, e, a),
                   query |-> [ws |-> w, start |-> s, end |-> e, att |-> a]]
  /\ UNCHANGED <<bookings, req, now>>

\* the rows createBooking writes for whole-second windows, as they stand or
\* cancelled since
SlotRows ==
  LET written == {NewRow(HardcodedUserId, w, toTimestamp(win[1]), toTimestamp(win[2]), a,
                         getWorkspaceCapacity(w).requires_approval) :
                    w \in WorkspaceIds, win \in SlotWindows, a \in AttendeeCounts}
      valid == {b \in written : b.attendees <= workspaces[b.workspace_id].base_capacity}
  IN valid \cup {[b EXCEPT !.status = "cancelled"] : b \in valid}

\* the table holds no row or one row written earlier
InitOverlap ==
  /\ bookings \in {<<>>} \cup {<<b>> : b \in SlotRows}
  /\ req = [c \in Clients |-> Idle]
  /\ resp = NoResponse
  /\ now = 0

NextOverlap ==
  \E w \in WorkspaceIds, win \in SlotWindows, a \in AttendeeCounts :
    Availability(w, win[1], win[2], a)

SpecOverlap == InitOverlap /\ [][NextOverlap]_vars

(* --------------------------- getUserBookings -------------------------- *)

\* the listing's row filter without its user condition
ListedAnyUser(b, user, clock, upcoming) ==
  IF upcoming THEN b.end_time > clock ELSE b.end_time <= clock

\* database lines 246-250: the WHERE clause of the listing, NOW() being clock
Listed(b, user, clock, upcoming) ==
  /\ b.user_id = user
  /\ IF upcoming THEN b.end_time > clock ELSE b.end_time <= clock

\* database line 251: ORDER BY b.start_time ASC for upcoming, DESC for past
InOrder(rows, ids, upcoming) ==
  \A k \in 1..(Len(ids) - 1) :
    IF upcoming THEN rows[ids[k]].start_time <= rows[ids[k + 1]].start_time
    ELSE rows[ids[k]].start_time >= rows[ids[k + 1]].start_time

\* the orders the database may return the listed rows in: rows of equal
\* start_time come in any order
ListingOrders(rows, user, clock, upcoming) ==
  LET listed == {i \in DOMAIN rows : Listed(rows[i], user, clock, upcoming)}
  IN {ids \in [1..Cardinality(listed) -> listed] :
        /\ \A j, k \in DOMAIN ids : j # k => ids[j] # ids[k]
        /\ InOrder(rows, ids, upcoming)}

\* database line 252: LIMIT limit OFFSET offset
LimitOffset(ids, limit, offset) ==
  IF offset >= Len(ids) THEN <<>>
  ELSE SubSeq(ids, offset + 1, IF offset + limit < Len(ids) THEN offset + limit ELSE Len(ids))

\* database getUserBookings: the results the query may give, each the
\* sequence of the selected rows with their ids
getUserBookings(rows, clock, user, upcoming, limit, offset) ==
  {[k \in DOMAIN page |-> [id |-> page[k]] @@ rows[page[k]]] :
     page \in {LimitOffset(ids, limit, offset) :
                 ids \in ListingOrders(rows, user, clock, upcoming)}}

\* the limit of a listing request that names none
DefaultLimit == 10

Pages == {1, 2}

Limits == {1, DefaultLimit}

\* the getUserBookings controller for the authenticated user u: the response
\* is kept with the query it answers
List(u, upcoming, page, limit) ==
  /\ \E data \in getUserBookings(bookings, now, u, upcoming = "true", limit,
                                 (page - 1) * limit) :
       resp' = Succeeded([Idle EXCEPT !.op = "list", !.user = u], OK, "", 0)
                 @@ [data |-> data,
                     pagination |-> [page |-> page, limit |-> limit, total |-> Len(data)],
                     query |-> [upcoming |-> upcoming, page |-> page, limit |-> limit]]
  /\ UNCHANGED <<bookings, req, now>>

\* the listing query fails and the controller's catch block answers
ListStorageFault(u) ==
  /\ resp' = Failed([Idle EXCEPT !.op = "list", !.user = u], StorageError,
                    BadRequestError("Failed to fetch bookings"), 0)
  /\ UNCHANGED <<bookings, req, now>>

\* the whole seconds a stored window starts and ends at
ListInstants == {k * MsPerSecond : k \in 0..MaxTick}

\* the rows createBooking writes, of the caller it records and of another
\* user
ListRows ==
  {NewRow(u, w, toTimestamp(win[1]), toTimestamp(win[2]), 1,
          getWorkspaceCapacity(w).requires_approval) :
     u \in Users, w \in WorkspaceIds,
     win \in {x \in ListInstants \X ListInstants : x[1] < x[2]}}

\* the table holds rows written earlier, no two of them in conflict, and
\* the listings are asked for at any whole second since
InitList ==
  /\ bookings \in {t \in UNION {[1..n -> ListRows] : n \in 0..MaxBookings} :
                     \A i \in DOMAIN t : ~ExclusionViolated(SubSeq(t, 1, i - 1), t[i])}
  /\ req = [c \in Clients |-> Idle]
  /\ resp = NoResponse
  /\ now \in ListInstants

NextList ==
  \/ \E u \in Users, upcoming \in {"true", "false"}, page \in Pages, limit \in Limits :
       List(u, upcoming, page, limit)
  \/ \E u \in Users : ListStorageFault(u)
  \/ Tick

SpecList == InitList /\ [][NextList]_vars

(* ------------------------------- claims ------------------------------- *)

ActiveIds == {i \in DOMAIN bookings : IsActive(bookings[i])}

\* C1: no workspace ever has two pending or confirmed bookings whose
\* [start, end) ranges overlap
C1_NoOverlap ==
  \A i, j \in ActiveIds :
    (i # j /\ bookings[i].workspace_id = bookings[j].workspace_id)
      => ~WindowsOverlap(bookings[i].start_time, bookings[i].end_time,
                         bookings[j].start_time, bookings[j].end_time)

\* a request that passed both application checks is refused by the
\* exclusion constraint while an active booking stands
C1_Witness ==
  /\ resp.op = "create" /\ resp.cause = ExclusionError.message
  /\ ActiveIds # {}

\* C2: of two concurrent createBooking requests for overlapping windows of
\* one workspace on a free slot exactly one succeeds, and exactly one row is
\* persisted: when both are answered the table holds one row, and a request
\* is answered 201 exactly when it added a row
C2_ExactlyOneWins ==
  /\ []((\A c \in Clients : req[c] = Idle) => Len(bookings) = 1)
  /\ [][\A c \in Clients :
          (req[c] # Idle /\ req'[c] = Idle)
            => ((resp'.code = CREATED) <=> (Len(bookings') = Len(bookings) + 1))]_vars

\* both requests are answered, the loser refused by the exclusion constraint
C2_Witness ==
  /\ \A c \in Clients : req[c] = Idle
  /\ resp.code = BAD_REQUEST /\ resp.cause = ExclusionError.message
  /\ Len(bookings) = 1

\* C3: a createBooking request answered with an error has written no row
C3_FailedCreateLeavesNoRow ==
  (resp.op = "create" /\ resp.code = BAD_REQUEST) => resp.wrote = 0

\* the instants at which occupancy can change
OccupancyInstants == Instants \cup {toTimestamp(t) : t \in Instants}

\* the attendees of the active bookings of workspace w that hold instant t
Occupancy(w, t) ==
  SumAttendees(bookings,
    {i \in ActiveIds : /\ bookings[i].workspace_id = w
                       /\ bookings[i].start_time <= t
                       /\ t < bookings[i].end_time})

\* C4: at every instant the attendees of a workspace's pending and confirmed
\* bookings that hold the instant sum to no more than its base capacity
C4_Capacity ==
  \A w \in WorkspaceIds, t \in OccupancyInstants :
    Occupancy(w, t) <= workspaces[w].base_capacity

\* a workspace is booked to its capacity and a further request is refused
C4_Witness ==
  /\ \E w \in WorkspaceIds, t \in OccupancyInstants :
       Occupancy(w, t) = workspaces[w].base_capacity
  /\ resp.op = "create" /\ resp.code = BAD_REQUEST
  /\ resp.cause = "Workspace not available for the requested time/slots"

\* C5: a createBooking request refused for overlapping an active booking, by
\* the conflict query or by the exclusion constraint, is answered with the
\* conflict error that says the slot is already booked
C5_OverlapReportedAsConflict ==
  (/\ resp.op = "create"
   /\ \/ resp.cause = Error("The selected time slot is already booked").message
      \/ /\ resp.cause = ExclusionError.message
         /\ \A i \in DOMAIN bookings : IsActive(bookings[i]))
    => resp.msg = "Timeslot already booked"

\* C6: a row createBooking writes is pending when its workspace's type
\* requires approval and confirmed otherwise
C6_InitialStatus ==
  (resp.op = "create" /\ resp.wrote # 0)
    => bookings[resp.wrote].status =
         IF workspaces[bookings[resp.wrote].workspace_id].requires_approval
           THEN "pending" ELSE "confirmed"

\* a booking was created pending
C6_Witness ==
  /\ resp.op = "create" /\ resp.code = CREATED
  /\ bookings[resp.wrote].status = "pending"

\* C7: cancelBooking succeeds only on a booking it found pending or confirmed
C7_CancelOnlyActive ==
  (resp.op = "cancel" /\ resp.code = OK) => resp.seen \in {"pending", "confirmed"}

Terminal == {"cancelled", "completed", "rejected"}

\* C8: a booking that is cancelled, completed or rejected keeps its status
C8_TerminalStays ==
  [][\A i \in DOMAIN bookings :
       bookings[i].status \in Terminal => bookings'[i].status = bookings[i].status]_vars

\* C9: a step changes a booking only in answering a cancelBooking request of
\* the booking's owner for that booking, and a cancelBooking request for
\* another user's booking is refused
C9_NoCrossUserCancel ==
  /\ [][\A i \in DOMAIN bookings :
          bookings'[i] # bookings[i]
            => (resp'.op = "cancel" /\ resp'.id = i /\ resp'.user = bookings[i].user_id)]_vars
  /\ []((resp.op = "cancel" /\ resp.id \in DOMAIN bookings
           /\ resp.user # bookings[resp.id].user_id)
          => (resp.code = BAD_REQUEST /\ resp.wrote = 0))

\* a user's request to cancel another user's booking was refused
C9_Witness ==
  /\ resp.op = "cancel" /\ resp.code = BAD_REQUEST
  /\ resp.id \in DOMAIN bookings
  /\ resp.user # bookings[resp.id].user_id
  /\ IsActive(bookings[resp.id])

\* C10: a successful cancelBooking sets the status of its booking to
\* cancelled, deletes no row and leaves every other field and row as it was
C10_CancelFrame ==
  [][(resp'.op = "cancel" /\ resp'.code = OK)
       => /\ DOMAIN bookings' = DOMAIN bookings
          /\ \A i \in DOMAIN bookings :
               bookings'[i] = IF i = resp'.id
                                THEN [bookings[i] EXCEPT !.status = "cancelled"]
                                ELSE bookings[i]]_vars

\* a booking was cancelled while another booking stands active
C10_Witness ==
  /\ resp.op = "cancel" /\ resp.code = OK
  /\ bookings[resp.id].status = "cancelled"
  /\ \E i \in ActiveIds : i # resp.id

\* C11: a booking is completed once its end_time has elapsed, and cancelling a
\* completed booking fails: no step sets to cancelled the status of a booking
\* of a non-empty window whose end_time <= now
C11_ElapsedNeverCancelled ==
  [][\A i \in DOMAIN bookings :
       (/\ bookings[i].start_time < bookings[i].end_time
        /\ bookings[i].end_time <= now
        /\ bookings[i].status # "cancelled")
         => bookings'[i].status # "cancelled"]_vars

\* the attendees of the active bookings of workspace w whose [start, end)
\* range overlaps the window [s, e)
OverlappingAttendees(w, s, e) ==
  SumAttendees(bookings,
    {i \in ActiveIds :
       /\ bookings[i].workspace_id = w
       /\ WindowsOverlap(bookings[i].start_time, bookings[i].end_time, s, e)})

\* C12: for every workspace, window [s, e) and attendee count n the summary
\* of getWorkspaceAvailability has current_attendees equal to the attendees
\* of the pending and confirmed bookings of the workspace that overlap the
\* window, available_slots = base capacity - current_attendees and
\* is_available = (available_slots >= n)
C12_AvailabilitySummary ==
  \A w \in WorkspaceIds, win \in Windows, n \in BodyAttendeeCounts :
    win[1] < win[2] =>
      LET summary == getWorkspaceAvailability(bookings, w, win[1], win[2], n)
      IN /\ summary.current_attendees = OverlappingAttendees(w, win[1], win[2])
         /\ summary.available_slots =
              workspaces[w].base_capacity - summary.current_attendees
         /\ summary.is_available = (summary.available_slots >= n)

\* C13: when an availability check for a window and a count the workspace
\* holds is refused only because of one active booking, the conflicting one,
\* then after that booking is cancelled the same check reports is_available
C13_CancelReleasesCapacity ==
  [][(resp'.op = "cancel" /\ resp'.code = OK)
       => \A w \in WorkspaceIds, win \in Windows, n \in AttendeeCounts :
            (/\ win[1] < win[2]
             /\ n <= workspaces[w].base_capacity
             /\ ConflictingBookings(bookings, w, win[1], win[2]) = {resp'.id}
             /\ ~getWorkspaceAvailability(bookings, w, win[1], win[2], n).is_available)
              => getWorkspaceAvailability(bookings', w, win[1], win[2], n).is_available]_vars

\* a booking was cancelled, and a check that was refused while it stood
\* active is now answered is_available
C13_Witness ==
  /\ resp.op = "cancel" /\ resp.code = OK
  /\ \E w \in WorkspaceIds, win \in Windows, n \in AttendeeCounts :
       /\ win[1] < win[2]
       /\ n <= workspaces[w].base_capacity
       /\ ~getWorkspaceAvailability(UpdateStatus(bookings, resp.id, resp.seen),
                                    w, win[1], win[2], n).is_available
       /\ getWorkspaceAvailability(bookings, w, win[1], win[2], n).is_available

\* C14: a createBooking request for a valid window of a workspace that has
\* no active booking at all, and so none that conflicts, is answered 201 and
\* adds a row when its attendees equal the base capacity, and is refused
\* without adding a row when they equal the base capacity + 1
C14_CapacityBoundary ==
  [][\A u \in Users, w \in WorkspaceIds, win \in Windows, a \in BodyAttendeeCounts :
       (/\ Create(u, w, win[1], win[2], a)
        /\ win[1] < win[2] /\ win[1] >= now
        /\ \A i \in ActiveIds : bookings[i].workspace_id # w)
         => /\ a = workspaces[w].base_capacity
                 => (resp'.code = CREATED /\ Len(bookings') = Len(bookings) + 1)
            /\ a = workspaces[w].base_capacity + 1
                 => (resp'.code = BAD_REQUEST /\ bookings' = bookings)]_vars

\* C15: checkAvailability turns away with a validation error every request
\* whose start is earlier than now + 24 hours, does not turn away for lack of
\* notice a request whose start is exactly now + 24 hours, and answers such a
\* request 200 when its window and attendees are valid
C15_AdvanceNoticeBoundary ==
  resp.op = "check" =>
    /\ resp.query.start < now + MIN_BOOKING_BUFFER => resp.code = BAD_REQUEST
    /\ resp.query.start = now + MIN_BOOKING_BUFFER
         => /\ resp.msg # "Bookings require at least 24 hours advance notice"
            /\ (/\ resp.query.start < resp.query.end
                /\ resp.query.att \in 1..workspaces[resp.query.ws].base_capacity)
                 => resp.code = OK

\* a request whose start is exactly now + 24 hours was answered 200
C15_Witness ==
  /\ resp.op = "check" /\ resp.code = OK
  /\ resp.query.start = now + MIN_BOOKING_BUFFER

\* C16: createBooking refuses, leaving the table as it was, every request
\* with start >= end and every request whose start is before the current
\* time, and every stored booking has its end_time strictly after its
\* start_time
C16_WindowValidated ==
  /\ [][\A u \in Users, w \in WorkspaceIds, win \in Windows, a \in BodyAttendeeCounts :
          (Create(u, w, win[1], win[2], a) /\ (win[1] >= win[2] \/ win[1] < now))
            => (resp'.code = BAD_REQUEST /\ bookings' = bookings)]_vars
  /\ [](\A i \in DOMAIN bookings : bookings[i].start_time < bookings[i].end_time)

\* C17: checkAvailability answers a request whose attendees exceed the base
\* capacity of the workspace with a validation error, never with a summary
C17_AttendeesAboveCapacityRefused ==
  (resp.op = "check" /\ resp.query.att > workspaces[resp.query.ws].base_capacity)
    => (resp.code = BAD_REQUEST /\ "data" \notin DOMAIN resp)

\* C18: a booking createBooking writes is owned by the authenticated user who
\* made the request
C18_OwnedByCaller ==
  (resp.op = "create" /\ resp.wrote # 0) => bookings[resp.wrote].user_id = resp.user

\* C19: every stored booking has at least one attendee and no more attendees
\* than the base capacity of its workspace
C19_AttendeesInRange ==
  \A i \in DOMAIN bookings :
    /\ bookings[i].attendees >= 1
    /\ bookings[i].attendees <= workspaces[bookings[i].workspace_id].base_capacity

\* C20: a cancelBooking request for a booking id that does not exist, or that
\* exists but is not owned by the caller, is answered 404 'Booking not found'
\* and writes nothing
C20_UnknownBookingNotFound ==
  (/\ resp.op = "cancel"
   /\ \/ resp.id \notin DOMAIN bookings
      \/ bookings[resp.id].user_id # resp.user)
    => (resp.code = NOT_FOUND /\ resp.msg = "Booking not found" /\ resp.wrote = 0)

\* the rows of workspace w, in the order of the table
OnWorkspace(rows, w) == SelectSeq(rows, LAMBDA b : b.workspace_id = w)

\* C21: of two createBooking requests that run concurrently on different
\* workspaces, each is answered as it is when it runs alone on an empty
\* table, created exactly when it asks for no more than its workspace holds;
\* whatever the availability summary, the pre-check, the conflict query and
\* the exclusion constraint find for a request in flight is what they find on
\* the rows of its own workspace; and a step of a request leaves every stored
\* row as it was and adds a row of its own workspace only
C21_WorkspacesIndependent ==
  /\ [](\A c \in Clients :
          req[c].op = "create" =>
            LET r == req[c]
                own == OnWorkspace(bookings, r.ws)
            IN /\ getWorkspaceAvailability(bookings, r.ws, r.start, r.end, r.att)
                    = getWorkspaceAvailability(own, r.ws, r.start, r.end, r.att)
               /\ CreateRefusal(bookings, now, r.ws, r.start, r.end, r.att)
                    = CreateRefusal(own, now, r.ws, r.start, r.end, r.att)
               /\ ReserveRefusal(bookings, r.ws, r.start, r.end, r.att)
                    = ReserveRefusal(own, r.ws, r.start, r.end, r.att)
               /\ ExclusionViolated(bookings, RowOf(r)) = ExclusionViolated(own, RowOf(r)))
  /\ [][\A c \in Clients :
          (req[c].op = "create" /\ req'[c] = Idle)
            => /\ (resp'.code = CREATED)
                    <=> (req[c].att <= getWorkspaceCapacity(req[c].ws).base_capacity)
               /\ \A i \in DOMAIN bookings : bookings'[i] = bookings[i]
               /\ \A i \in DOMAIN bookings' \ DOMAIN bookings :
                    bookings'[i].workspace_id = req[c].ws]_vars

\* a booking was created on one workspace while an active booking of another
\* workspace holds a window that overlaps its window
C21_Witness ==
  /\ resp.op = "create" /\ resp.code = CREATED /\ resp.wrote = 2
  /\ \E i \in ActiveIds :
       /\ bookings[i].workspace_id # bookings[resp.wrote].workspace_id
       /\ WindowsOverlap(bookings[i].start_time, bookings[i].end_time,
                         bookings[resp.wrote].start_time, bookings[resp.wrote].end_time)

\* the ids of the rows a response lists
ListedIds(data) == {data[k].id : k \in DOMAIN data}

\* C22: a listing holds only stored bookings of the requesting user, each
\* once, all with end_time > now when upcoming is asked and all with
\* end_time <= now otherwise, by ascending start_time when upcoming and by
\* descending start_time otherwise; and at any time the complete upcoming
\* listing and the complete past listing of a user hold every booking of
\* that user between them and share none
C22_UserListings ==
  /\ resp.op = "list" /\ resp.code = OK =>
       LET data == resp.data
           upcoming == resp.query.upcoming = "true"
       IN /\ \A k \in DOMAIN data :
               /\ data[k].id \in DOMAIN bookings
               /\ data[k] = [id |-> data[k].id] @@ bookings[data[k].id]
               /\ data[k].user_id = resp.user
               /\ upcoming => data[k].end_time > now
               /\ ~upcoming => data[k].end_time <= now
          /\ \A j, k \in DOMAIN data : j # k => data[j].id # data[k].id
          /\ \A k \in 1..(Len(data) - 1) :
               /\ upcoming => data[k].start_time <= data[k + 1].start_time
               /\ ~upcoming => data[k].start_time >= data[k + 1].start_time
  /\ \A u \in Users :
       \A ahead \in getUserBookings(bookings, now, u, TRUE, Len(bookings), 0),
          past \in getUserBookings(bookings, now, u, FALSE, Len(bookings), 0) :
         /\ ListedIds(ahead) \cup ListedIds(past)
              = {i \in DOMAIN bookings : bookings[i].user_id = u}
         /\ ListedIds(ahead) \cap ListedIds(past) = {}

\* a past listing of two bookings that start at different times
C22_Witness ==
  /\ resp.op = "list" /\ resp.code = OK /\ resp.query.upcoming = "false"
  /\ Len(resp.data) = 2
  /\ resp.data[1].start_time > resp.data[2].start_time

\* C23: a checkAvailability request, answered 200 or refused, leaves the
\* table as it was: no row added, none removed, no status or other column
\* changed, however many requests follow one another
C23_CheckReadOnly ==
  [][resp'.op = "check" => bookings' = bookings]_vars

\* an availability request was answered 200 with a summary on a table whose
\* active booking fills the window asked for
C23_Witness ==
  /\ resp.op = "check" /\ resp.code = OK
  /\ ~resp.data.is_available
  /\ \E i \in ActiveIds :
       /\ bookings[i].workspace_id = resp.query.ws
       /\ WindowsOverlap(bookings[i].start_time, bookings[i].end_time,
                         resp.query.start, resp.query.end)

\* the table a createBooking request found: the table without the row the
\* request wrote, if it wrote one
TableBefore ==
  IF resp.wrote = 0 THEN bookings ELSE SubSeq(bookings, 1, Len(bookings) - 1)

\* C24: a createBooking request for a window [b, c) of a workspace whose
\* rows are all active, none of them meeting [b, c) under half-open
\* semantics and one of them ending exactly at b, for no more attendees than
\* the workspace holds, is answered 201 and its booking is active next to
\* the booking that ends at b
C24_AdjacentBookingsCoexist ==
  (/\ resp.op = "create"
   /\ resp.body.att <= getWorkspaceCapacity(resp.body.ws).base_capacity
   /\ \A i \in DOMAIN TableBefore :
        TableBefore[i].workspace_id = resp.body.ws
          => /\ IsActive(TableBefore[i])
             /\ ~WindowsOverlap(TableBefore[i].start_time, TableBefore[i].end_time,
                                resp.body.start, resp.body.end)
   /\ \E i \in DOMAIN TableBefore :
        /\ TableBefore[i].workspace_id = resp.body.ws
        /\ TableBefore[i].end_time = resp.body.start)
    => /\ resp.code = CREATED
       /\ resp.wrote \in ActiveIds

\* C25: for every stored booking with start_time < end_time and every window
\* with start < end, the three-clause condition holds exactly when
\* B.start < end and B.end > start; the conflict query therefore selects
\* exactly the active bookings of the workspace that meet the window under
\* that one test, and the availability summary counts exactly their attendees
C25_ThreeClausesAreOneTest ==
  /\ \A i \in DOMAIN bookings, win \in SlotWindows :
       bookings[i].start_time < bookings[i].end_time
         => (TimeClauses(bookings[i], win[1], win[2])
               <=> (bookings[i].start_time < win[2] /\ bookings[i].end_time > win[1]))
  /\ \A w \in WorkspaceIds, win \in SlotWindows :
       ConflictingBookings(bookings, w, win[1], win[2])
         = {i \in ActiveIds :
              /\ bookings[i].workspace_id = w
              /\ bookings[i].start_time < win[2]
              /\ bookings[i].end_time > win[1]}
  /\ resp.op = "availability" =>
       resp.data.current_attendees
         = SumAttendees(bookings,
             {i \in ActiveIds :
                /\ bookings[i].workspace_id = resp.query.ws
                /\ bookings[i].start_time < resp.query.end
                /\ bookings[i].end_time > resp.query.start})

\* the summary was asked for a window that ends where the stored active
\* booking starts, and counts nobody
C25_Witness ==
  /\ resp.op = "availability"
  /\ \E i \in ActiveIds :
       /\ bookings[i].workspace_id = resp.query.ws
       /\ bookings[i].start_time = resp.query.end
  /\ resp.data.current_attendees = 0

\* C26: a createBooking request for a workspace whose is_active flag is
\* false is refused, and no pending or confirmed booking stands on such a
\* workspace
C26_InactiveWorkspaceRefused ==
  /\ (resp.op = "create" /\ resp.code = CREATED)
       => getWorkspaceCapacity(bookings[resp.wrote].workspace_id).is_active
  /\ \A i \in ActiveIds : getWorkspaceCapacity(bookings[i].workspace_id).is_active

\* C27: a createBooking request for a whole-second window of a workspace
\* that holds no active booking, for no more attendees than the workspace
\* holds, is answered 201 although a cancelled booking of the workspace
\* meets the window
C27_CancelledRowsDoNotBlock ==
  (/\ resp.op = "create"
   /\ resp.body.att <= getWorkspaceCapacity(resp.body.ws).base_capacity
   /\ \A i \in DOMAIN TableBefore :
        TableBefore[i].workspace_id = resp.body.ws => ~IsActive(TableBefore[i])
   /\ \E i \in DOMAIN TableBefore :
        /\ TableBefore[i].workspace_id = resp.body.ws
        /\ TableBefore[i].status = "cancelled"
        /\ WindowsOverlap(TableBefore[i].start_time, TableBefore[i].end_time,
                          resp.body.start, resp.body.end))
    => resp.code = CREATED

\* C28: a createBooking request for a whole-second window in the future that
\* getWorkspaceAvailability reports available on the table the request
\* finds is answered 201
C28_PrecheckAgreesWithReservation ==
  (/\ resp.op = "create"
   /\ resp.body.start >= now
   /\ getWorkspaceAvailability(TableBefore, resp.body.ws, resp.body.start,
                               resp.body.end, resp.body.att).is_available)
    => resp.code = CREATED

\* C29: for every workspace and every whole-second window the summary
\* reports between 0 and base_capacity available slots, and no more current
\* attendees than the base capacity
C29_SlotsWithinCapacity ==
  \A w \in WorkspaceIds, win \in SlotWindows :
    LET summary == getWorkspaceAvailability(bookings, w, win[1], win[2], 1)
    IN /\ 0 <= summary.available_slots
       /\ summary.available_slots <= summary.base_capacity
       /\ summary.current_attendees <= summary.base_capacity

\* C30: of cancelBooking requests of the owner that found their booking
\* pending or confirmed, whatever the order of their steps, only one is
\* answered 200: a request answered when the booking has already been
\* cancelled is refused with the 'cannot cancel' error, unless a storage
\* call of it failed
C30_ConcurrentCancelsOneWins ==
  [][(/\ resp'.op = "cancel"
      /\ resp'.seen \in {"pending", "confirmed"}
      /\ resp'.id \in DOMAIN bookings
      /\ bookings[resp'.id].user_id = resp'.user
      /\ bookings[resp'.id].status = "cancelled"
      /\ resp'.cause # StorageError.message)
       => /\ resp'.code = BAD_REQUEST
          /\ resp'.msg = "Cannot cancel a completed or already cancelled booking"]_vars

====
